---- MODULE Spec2Model ----
(***************************************************************************)
(* Mindful-Moments: the live voice session of components/LiveSession.tsx.  *)
(* The component's refs and React state are the variables; every callback  *)
(* (connectToLive and its continuations, onopen, onmessage and the         *)
(* continuation after its await, onclose, onerror, onaudioprocess,         *)
(* toggleMute, cleanupAudio) is one action.  The output AudioContext's     *)
(* clock is a discrete counter.                                            *)
(* The diary of App.tsx follows: entries, the detail and clear-data        *)
(* dialogs, and the date given to a saved entry; then App.tsx's camera     *)
(* overlay, voice recorder and daily joke, and the handleSend of           *)
(* components/ChatAssistant.tsx.  Last come MultiProviderChat.sendMessage  *)
(* and analyzeDiaryEntry of services/geminiService (unnamed/part_001).     *)
(***************************************************************************)
EXTENDS Naturals, Sequences, FiniteSets

\* ---------------------------------------------------------------- bounds
MaxMessages == 3     \* server messages (audio or Interrupted) in one session
MaxDur == 1          \* longest decoded buffer, in clock ticks
MaxClock == 2        \* last value of the output clock that is explored
MaxFrames == 2       \* onaudioprocess events in one session
MaxCleanups == 2     \* calls of cleanupAudio
MaxSaves == 2        \* entries saved (ids handed out) in one run
MaxClears == 1       \* calls of localStorage.clear in one run
MaxMonth == 2        \* last month of the calendar that is explored
MaxHour == 1         \* last hour of a day: a day has MaxHour + 1 hours
MaxStreams == 3      \* getUserMedia calls of the camera, and of the recorder
MaxFetches == 3      \* calls of fetchDailyJoke in one run
MaxReloads == 2      \* page reloads in one run
MaxDays == 1         \* midnights that pass in one run
MaxCalls == 3        \* calls of ChatAssistant.handleSend in one run
MaxSends == 3        \* calls of MultiProviderChat.sendMessage on one session
MaxAttachments == 2  \* attachments given to analyzeDiaryEntry

Durations == 1..MaxDur

VARIABLES
  \* React state (LiveSession.tsx:13-15)
  isConnected, isMuted, error,
  \* refs (LiveSession.tsx:19-26)
  inputAudioContextRef, outputAudioContextRef, nextStartTimeRef, sourcesRef,
  streamRef, sessionRef, processorRef, sourceNodeRef,
  \* position of connectToLive and what its closures captured
  pc, capturedMuted,
  \* the environment: transport, session promise, devices, output clock
  ws, promise, thenQueue, streamLive, capturing, now,
  \* bookkeeping of what happened: chunks seen, frames sent, release calls
  chunk, interrupts, interruptAt, interruptAudio, frames, sent, released,
  cleanups, sawError, sawClose,
  \* the application's view (App.tsx:670-672), liveClient.connect calls made,
  \* and whether the outbound connection is backpressured
  view, connects, backpressured,
  \* App.tsx, the diary: React state (App.tsx:105-134)
  entries, selectedEntry, isDeleteConfirming, isAnalyzing, filterDate,
  clearDataStep,
  \* handleSaveEntry suspended at its await: empty, or one record of what
  \* its closure captured
  saving,
  \* the environment: local date and hour, the time zone
  today, timeZone,
  \* bookkeeping: localStorage.clear calls, ids handed out, ids deleted
  clears, nextId, deleted,
  \* App.tsx, the camera: React state (App.tsx:151-155), the getUserMedia
  \* calls not settled yet, the streams whose tracks are live, streams asked
  isCameraOpen, cameraStream, facingMode, camPending, camLive, camAcquired,
  \* App.tsx, the recorder: React state and ref (App.tsx:140-144), the
  \* getUserMedia calls not settled yet, the recorders that are recording,
  \* the onstop handlers waiting for transcribeAudio, the live streams
  isRecording, isTranscribing, mediaRecorderRef, recPending, recActive,
  transcribing, micLive, micAcquired,
  \* App.tsx, the daily joke: React state (App.tsx:130), localStorage's
  \* mindful_moments_joke, the fetchDailyJoke calls not resolved yet, whether
  \* the mount effects have run, and every call made with what was stored
  dailyJoke, storedJoke, jokePending, mounted, jokeLog, fetches, reloads,
  \* ChatAssistant.tsx: React state (ChatAssistant.tsx:14-18), the sendMessage
  \* call not settled yet, calls of handleSend and of sendMessage
  messages, input, isLoading, chatPending, chatCalls, chatSends,
  \* MultiProviderChat (part_001:226-232): its provider and chatHistory, the
  \* sendMessage call not settled yet with the history it found, and how
  \* every call so far has ended
  provider, chatHistory, sendCall, sendReturn,
  \* analyzeDiaryEntry (part_001:85-181): its arguments, its position, the
  \* provider requests it made, and what it settled with
  analyzeArgs, analyzePc, analyzeCalls, analyzeResult

\* LiveSession's variables, all but the application's view
liveVars == << isConnected, isMuted, error, inputAudioContextRef,
              outputAudioContextRef, nextStartTimeRef, sourcesRef, streamRef,
              sessionRef, processorRef, sourceNodeRef, pc, capturedMuted,
              ws, promise, thenQueue, streamLive, capturing, now, chunk,
              interrupts, interruptAt, interruptAudio, frames, sent,
              released, cleanups, sawError, sawClose, connects,
              backpressured >>

diaryVars == << entries, selectedEntry, isDeleteConfirming, isAnalyzing,
               filterDate, clearDataStep, saving, today, timeZone, clears,
               nextId, deleted >>
cameraVars == << isCameraOpen, cameraStream, facingMode, camPending, camLive,
                camAcquired >>
recVars == << isRecording, isTranscribing, mediaRecorderRef, recPending,
             recActive, transcribing, micLive, micAcquired >>
jokeVars == << dailyJoke, storedJoke, jokePending, mounted, jokeLog, fetches,
              reloads >>
chatVars == << messages, input, isLoading, chatPending, chatCalls, chatSends >>
sessionVars == << provider, chatHistory, sendCall, sendReturn >>
analyzeVars == << analyzeArgs, analyzePc, analyzeCalls, analyzeResult >>
serviceVars == << sessionVars, analyzeVars >>
uiVars == << diaryVars, cameraVars, recVars, jokeVars, chatVars,
            serviceVars >>
\* what the diary's handlers leave alone
notDiaryVars == << liveVars, cameraVars, recVars, jokeVars, chatVars,
                  serviceVars >>
\* what the camera's, the recorder's, the joke's and the chat's leave alone
notCameraVars == << liveVars, view, diaryVars, recVars, jokeVars, chatVars,
                   serviceVars >>
notRecVars == << liveVars, view, diaryVars, cameraVars, jokeVars, chatVars,
                serviceVars >>
notJokeVars == << liveVars, view, entries, selectedEntry, isDeleteConfirming,
                 isAnalyzing, filterDate, clearDataStep, saving, timeZone,
                 clears, nextId, deleted, cameraVars, recVars, chatVars,
                 serviceVars >>
notChatVars == << liveVars, diaryVars, cameraVars, recVars, jokeVars,
                 serviceVars >>
\* what the services leave alone
notSessionVars == << liveVars, view, diaryVars, cameraVars, recVars, jokeVars,
                    chatVars, analyzeVars >>
notAnalyzeVars == << liveVars, view, diaryVars, cameraVars, recVars, jokeVars,
                    chatVars, sessionVars >>
vars == << liveVars, view, uiVars >>

reactVars == << isConnected, isMuted, error >>
captureRefs == << inputAudioContextRef, streamRef, processorRef, sourceNodeRef >>
playVars == << nextStartTimeRef, sourcesRef, chunk, interrupts, interruptAt,
              interruptAudio >>
sendVars == << thenQueue, frames, sent >>
histVars == << sawError, sawClose >>
appVars == << view, connects, backpressured >>

Max(a, b) == IF a >= b THEN a ELSE b

Resources == {"processor", "sourceNode", "stream", "inputCtx", "outputCtx", "session"}

\* ------------------------------------------------------------------ Init
\* A date is << year, month, day >>; NoDate is the empty filterDate ''.
NoDate == << >>
Years == {2023, 2024}
Hours == 0..MaxHour
TimeZones == {"west", "utc", "east"}

\* App.tsx at mount with nothing in localStorage (App.tsx:104-134).
DiaryInit ==
  /\ entries = << >> /\ selectedEntry = 0 /\ isDeleteConfirming = FALSE
  /\ isAnalyzing = FALSE /\ filterDate = NoDate /\ clearDataStep = 0
  /\ saving = << >>
  /\ clears = 0 /\ deleted = {}

\* The camera overlay is closed and nothing was asked of the camera
\* (App.tsx:151-155); a stream is a number from 1, 0 is null.
CameraInit ==
  /\ isCameraOpen = FALSE /\ cameraStream = 0 /\ facingMode = "environment"
  /\ camPending = {} /\ camLive = {} /\ camAcquired = 0

\* No recording (App.tsx:140-144).
RecInit ==
  /\ isRecording = FALSE /\ isTranscribing = FALSE /\ mediaRecorderRef = 0
  /\ recPending = {} /\ recActive = {} /\ transcribing = {} /\ micLive = {}
  /\ micAcquired = 0

\* A joke is << >> (null) or a sequence of one record.  Here today's joke
\* has been fetched and stored.
JokeOf(d, c) == << [date |-> d, content |-> c] >>

JokeInit ==
  /\ dailyJoke = JokeOf(<< 2024, 1, 1 >>, 0)
  /\ storedJoke = JokeOf(<< 2024, 1, 1 >>, 0)
  /\ jokePending = {} /\ mounted = TRUE /\ jokeLog = {} /\ fetches = 0
  /\ reloads = 0

\* ChatAssistant's state at mount (ChatAssistant.tsx:14-18).
InitMessages == << [role |-> "model", text |-> "init"] >>

ChatInit ==
  /\ messages = InitMessages /\ input = "" /\ isLoading = FALSE
  /\ chatPending = << >> /\ chatCalls = 0 /\ chatSends = 0

\* A chat message of the provider's API.
Msg(r, c) == [role |-> r, content |-> c]

\* A MultiProviderChat of a third-party provider as its constructor leaves it
\* (part_001:234-255), and analyzeDiaryEntry not called: no configuration
\* (<< >>), no attachments.
ServiceInit ==
  /\ provider = "DeepSeek" /\ chatHistory = << Msg("system", "instruction") >>
  /\ sendCall = << >> /\ sendReturn = << >>
  /\ analyzeArgs = [config |-> << >>, attachments |-> << >>]
  /\ analyzePc = "idle" /\ analyzeCalls = << >> /\ analyzeResult = << >>

MediaInit == CameraInit /\ RecInit /\ JokeInit /\ ChatInit /\ ServiceInit

UiInit ==
  /\ DiaryInit /\ nextId = 1
  /\ today = [date |-> << 2024, 1, 1 >>, hour |-> 0] /\ timeZone = "utc"
  /\ MediaInit

\* The component is mounted; the mount effect has not run yet.
LiveInit ==
  /\ isConnected = FALSE /\ isMuted = FALSE /\ error = "none"
  /\ inputAudioContextRef = "null" /\ outputAudioContextRef = "null"
  /\ nextStartTimeRef = 0 /\ sourcesRef = {}
  /\ streamRef = "null" /\ sessionRef = "null"
  /\ processorRef = "null" /\ sourceNodeRef = "null"
  /\ pc = "idle" /\ capturedMuted = FALSE
  /\ ws = "none" /\ promise = "none" /\ thenQueue = << >>
  /\ streamLive = FALSE /\ capturing = FALSE /\ now = 0
  /\ chunk = << >> /\ interrupts = 0 /\ interruptAt = 0
  /\ interruptAudio = FALSE
  /\ frames = 0 /\ sent = << >>
  /\ released = [r \in Resources |-> 0]
  /\ cleanups = 0 /\ sawError = FALSE /\ sawClose = FALSE
  /\ connects = 0 /\ backpressured = FALSE

Init == LiveInit /\ view = "LIVE_SESSION" /\ UiInit

\* ------------------------------------------------- the session promise
\* session.sendRealtimeInput({media}) (LiveSession.tsx:116): the call is
\* recorded with the mute state at capture and, at the call, whether the
\* transport is open and whether it is backpressured, and with whether the
\* callback making it had waited for the promise.
SendRealtimeInput(acc, f) ==
  [acc EXCEPT !.sent = Append(@, [id |-> f.id, muted |-> f.muted,
                                  open |-> (acc.ws = "open"),
                                  bp |-> backpressured,
                                  queued |-> f.queued])]

\* session.close() (LiveSession.tsx:57): one more close call; an open
\* transport starts closing.
SessionClose(acc) ==
  [acc EXCEPT !.closes = @ + 1,
              !.ws = IF @ \in {"open", "connecting"} THEN "closing" ELSE @]

\* One callback registered with sessionPromise.then (LiveSession.tsx:115, 57).
RunCallback(acc, cb) ==
  IF cb.op = "send" THEN SendRealtimeInput(acc, cb) ELSE SessionClose(acc)

\* The callbacks registered on the pending promise run in registration order
\* when it resolves.
RECURSIVE RunThen(_, _)
RunThen(acc, queue) ==
  IF queue = << >> THEN acc
  ELSE RunThen(RunCallback(acc, Head(queue)), Tail(queue))

\* A then that runs the callbacks waiting on the promise last-registered
\* first.
ThenLifo(cb) ==
  LET acc == [sent |-> sent, ws |-> ws, closes |-> released["session"]]
      out == RunCallback(acc, cb)
  IN  CASE promise = "resolved" ->
             /\ sent' = out.sent /\ ws' = out.ws
             /\ released' = [released EXCEPT !["session"] = out.closes]
             /\ thenQueue' = thenQueue
        [] promise = "pending" ->
             /\ thenQueue' = << cb >> \o thenQueue
             /\ UNCHANGED << sent, ws, released >>
        [] OTHER -> UNCHANGED << sent, ws, released, thenQueue >>

\* sessionPromise.then(cb): runs cb at once when the promise is resolved,
\* queues it while the promise is pending, drops it when it was rejected.
Then(cb) ==
  LET acc == [sent |-> sent, ws |-> ws, closes |-> released["session"]]
      out == RunCallback(acc, cb)
  IN  CASE promise = "resolved" ->
             /\ sent' = out.sent /\ ws' = out.ws
             /\ released' = [released EXCEPT !["session"] = out.closes]
             /\ thenQueue' = thenQueue
        [] promise = "pending" ->
             /\ thenQueue' = Append(thenQueue, cb)
             /\ UNCHANGED << sent, ws, released >>
        [] OTHER -> UNCHANGED << sent, ws, released, thenQueue >>

\* ------------------------------------------------------- connectToLive
\* The mount effect calls connectToLive: error reset, both contexts created,
\* getUserMedia requested (LiveSession.tsx:183-184, 65-74).  The callbacks
\* built later in this call close over this render's isMuted.
ConnectToLive ==
  /\ pc = "idle"
  /\ pc' = "awaitMedia"
  /\ error' = "none"
  /\ inputAudioContextRef' = "open"
  /\ outputAudioContextRef' = "open"
  /\ capturedMuted' = isMuted
  /\ UNCHANGED << isConnected, isMuted, streamRef, sessionRef,
                  processorRef, sourceNodeRef, playVars, sendVars,
                  histVars, ws, promise, streamLive, capturing, now,
                  released, cleanups, appVars, uiVars >>

\* getUserMedia resolved: the stream is stored, liveClient.connect is called
\* and its promise stored without being awaited (LiveSession.tsx:75-175).
GetUserMediaResolve ==
  /\ pc = "awaitMedia"
  /\ pc' = "done"
  /\ streamRef' = "stream"
  /\ streamLive' = TRUE
  /\ ws' = "connecting"
  /\ promise' = "pending"
  /\ sessionRef' = "promise"
  /\ connects' = connects + 1
  /\ UNCHANGED << reactVars, inputAudioContextRef, outputAudioContextRef,
                  processorRef, sourceNodeRef, capturedMuted, playVars,
                  sendVars, histVars, capturing, now, released, cleanups,
                  view, backpressured, uiVars >>

\* A rejection of getUserMedia after which the connect is still made.
GetUserMediaRejectConnects ==
  /\ pc = "awaitMedia"
  /\ pc' = "failed"
  /\ error' = "setup"
  /\ ws' = "connecting"
  /\ promise' = "pending"
  /\ sessionRef' = "promise"
  /\ connects' = connects + 1
  /\ UNCHANGED << isConnected, isMuted, captureRefs, outputAudioContextRef,
                  capturedMuted, playVars, sendVars, histVars, streamLive,
                  capturing, now, released, cleanups, view, backpressured,
                  uiVars >>

\* getUserMedia rejected: the catch block sets the setup error
\* (LiveSession.tsx:177-180).
GetUserMediaReject ==
  /\ pc = "awaitMedia"
  /\ pc' = "failed"
  /\ error' = "setup"
  /\ UNCHANGED << isConnected, isMuted, inputAudioContextRef,
                  outputAudioContextRef, streamRef, sessionRef,
                  processorRef, sourceNodeRef, capturedMuted, playVars,
                  sendVars, histVars, ws, promise, streamLive, capturing,
                  now, released, cleanups, appVars, uiVars >>

\* ------------------------------------------------------------ callbacks
\* onopen (LiveSession.tsx:89-122): connected; the capture graph is built
\* unless the input context or the stream is gone.
OnOpen ==
  /\ ws = "connecting"
  /\ ws' = "open"
  /\ isConnected' = TRUE
  /\ IF inputAudioContextRef = "null" \/ streamRef = "null"
       THEN UNCHANGED << sourceNodeRef, processorRef, capturing >>
       ELSE /\ sourceNodeRef' = "node"
            /\ processorRef' = "node"
            /\ capturing' = TRUE
  /\ UNCHANGED << isMuted, error, inputAudioContextRef,
                  outputAudioContextRef, streamRef, sessionRef, pc,
                  capturedMuted, playVars, sendVars, histVars, promise,
                  streamLive, now, released, cleanups, appVars, uiVars >>

\* liveClient.connect's promise resolves once the transport has opened; the
\* callbacks waiting on it run in order.
SessionResolve ==
  /\ promise = "pending"
  /\ ws = "open"
  /\ promise' = "resolved"
  /\ LET out == RunThen([sent |-> sent, ws |-> ws,
                         closes |-> released["session"]], thenQueue)
     IN  /\ sent' = out.sent
         /\ ws' = out.ws
         /\ released' = [released EXCEPT !["session"] = out.closes]
  /\ thenQueue' = << >>
  /\ UNCHANGED << reactVars, captureRefs, outputAudioContextRef,
                  sessionRef, pc, capturedMuted, playVars, frames,
                  histVars, streamLive, capturing, now, cleanups, appVars,
                  uiVars >>

\* An onclose that connects again.
OnCloseReconnects ==
  /\ ws \in {"connecting", "open", "closing"}
  /\ ws' = "connecting"
  /\ promise' = "pending"
  /\ connects' = connects + 1
  /\ isConnected' = FALSE
  /\ sawClose' = TRUE
  /\ UNCHANGED << isMuted, error, captureRefs, outputAudioContextRef,
                  sessionRef, pc, capturedMuted, playVars, sendVars,
                  sawError, streamLive, capturing, now, released, cleanups,
                  view, backpressured, uiVars >>

\* onclose (LiveSession.tsx:163-166).
OnClose ==
  /\ ws \in {"connecting", "open", "closing"}
  /\ ws' = "closed"
  /\ isConnected' = FALSE
  /\ sawClose' = TRUE
  /\ UNCHANGED << isMuted, error, captureRefs, outputAudioContextRef,
                  sessionRef, pc, capturedMuted, playVars, sendVars,
                  sawError, promise, streamLive, capturing, now, released,
                  cleanups, appVars, uiVars >>

\* An onerror that leaves isConnected as it is.
OnErrorKeepsConnected ==
  /\ ws \in {"connecting", "open"}
  /\ ws' = "closing"
  /\ error' = "conn"
  /\ sawError' = TRUE
  /\ UNCHANGED << isConnected, isMuted, captureRefs, outputAudioContextRef,
                  sessionRef, pc, capturedMuted, playVars, sendVars,
                  sawClose, promise, streamLive, capturing, now, released,
                  cleanups, appVars, uiVars >>

\* onerror (LiveSession.tsx:167-171).  A transport error is fatal to the
\* connection: it never opens afterwards and its close event follows.
OnError ==
  /\ ws \in {"connecting", "open"}
  /\ ws' = "closing"
  /\ error' = "conn"
  /\ isConnected' = FALSE
  /\ sawError' = TRUE
  /\ UNCHANGED << isMuted, captureRefs, outputAudioContextRef, sessionRef,
                  pc, capturedMuted, playVars, sendVars, sawClose, promise,
                  streamLive, capturing, now, released, cleanups, appVars,
                  uiVars >>

\* liveClient.connect's promise rejects: no connection was established and
\* no transport callback fires.  Nothing in connectToLive handles the
\* rejection (the promise is not awaited, LiveSession.tsx:79, 175); the
\* callbacks waiting on the promise are dropped, cleanupAudio's has a catch
\* (LiveSession.tsx:57).
ConnectReject ==
  /\ promise = "pending"
  /\ ws = "connecting"
  /\ promise' = "rejected"
  /\ ws' = "closed"
  /\ thenQueue' = << >>
  /\ UNCHANGED << reactVars, captureRefs, outputAudioContextRef,
                  sessionRef, pc, capturedMuted, playVars, frames, sent,
                  histVars, streamLive, capturing, now, released, cleanups,
                  appVars, uiVars >>

\* The outbound connection becomes backpressured, or drains.
Backpressure ==
  /\ ws = "open"
  /\ backpressured' = ~backpressured
  /\ UNCHANGED << reactVars, captureRefs, outputAudioContextRef,
                  sessionRef, pc, capturedMuted, playVars, sendVars,
                  histVars, ws, promise, streamLive, capturing, now,
                  released, cleanups, view, connects, uiVars >>

\* processor.onaudioprocess (LiveSession.tsx:101-118): the closure's isMuted
\* decides; an unmuted frame is handed to sessionPromise.then.
OnAudioProcess ==
  /\ capturing
  /\ frames < MaxFrames
  /\ frames' = frames + 1
  /\ IF capturedMuted
       THEN UNCHANGED << sent, ws, released, thenQueue >>
       ELSE Then([op |-> "send", id |-> frames + 1, muted |-> isMuted,
                  queued |-> (promise = "pending")])
  /\ UNCHANGED << reactVars, captureRefs, outputAudioContextRef,
                  sessionRef, pc, capturedMuted, playVars, histVars,
                  promise, streamLive, capturing, now, cleanups, appVars,
                  uiVars >>

\* toggleMute (LiveSession.tsx:189-191), while the view is mounted.
ToggleMute ==
  /\ pc # "idle"
  /\ cleanups = 0
  /\ isMuted' = ~isMuted
  /\ UNCHANGED << isConnected, error, captureRefs, outputAudioContextRef,
                  sessionRef, pc, capturedMuted, playVars, sendVars,
                  histVars, ws, promise, streamLive, capturing, now,
                  released, cleanups, appVars, uiVars >>

\* -------------------------------------------------------------- playback
\* Where a started buffer begins to play: AudioBufferSourceNode.start(when)
\* with when in the past plays at once.
EffStart(c) == Max(c.start, c.at)
EffEnd(c) == EffStart(c) + c.dur

Started == {i \in 1..Len(chunk) : chunk[i].st = "started"}

\* A handler that clears sourcesRef without stopping its members.
StopNone(ch, set, clock) == ch

\* source.stop() on every member of sourcesRef (LiveSession.tsx:127-129, 49-51).
StopAll(ch, set, clock) ==
  [i \in 1..Len(ch) |->
     IF i \in set /\ ~ch[i].stopped
       THEN [ch[i] EXCEPT !.stopped = TRUE, !.stopAt = clock] ELSE ch[i]]

\* An Interrupted branch without its return: a message that also carries
\* audio goes on into the audio branch.
OnMessageInterruptedFallsThrough(audio) ==
  /\ ws \in {"open", "closing"}
  /\ Len(chunk) + interrupts < MaxMessages
  /\ interrupts' = interrupts + 1
  /\ interruptAt' = now
  /\ interruptAudio' = audio
  /\ sourcesRef' = {}
  /\ IF audio /\ outputAudioContextRef # "null"
       THEN /\ nextStartTimeRef' = now
            /\ chunk' = Append(StopAll(chunk, sourcesRef, now),
                 [dur |-> 1, st |-> "decoding", epoch |-> interrupts + 1,
                  start |-> 0, at |-> 0, ord |-> 0, epochS |-> 0,
                  anchor |-> 0, stopped |-> FALSE, stopAt |-> 0])
       ELSE /\ nextStartTimeRef' = 0
            /\ chunk' = StopAll(chunk, sourcesRef, now)
  /\ UNCHANGED << reactVars, captureRefs, outputAudioContextRef,
                  sessionRef, pc, capturedMuted, sendVars, histVars, ws,
                  promise, streamLive, capturing, now, released, cleanups,
                  appVars, uiVars >>

\* onmessage, Interrupted branch (LiveSession.tsx:124-133), for a message
\* flagged interrupted that carries inline audio or none: the branch returns
\* before the audio branch is reached.  A message is delivered while the
\* transport is open, and still while it is closing.
OnMessageInterrupted(audio) ==
  /\ ws \in {"open", "closing"}
  /\ Len(chunk) + interrupts < MaxMessages
  /\ interrupts' = interrupts + 1
  /\ interruptAt' = now
  /\ interruptAudio' = audio
  /\ chunk' = StopAll(chunk, sourcesRef, now)
  /\ sourcesRef' = {}
  /\ nextStartTimeRef' = 0
  /\ UNCHANGED << reactVars, captureRefs, outputAudioContextRef,
                  sessionRef, pc, capturedMuted, sendVars, histVars, ws,
                  promise, streamLive, capturing, now, released, cleanups,
                  appVars, uiVars >>

\* The anchor update made before the decode is awaited (LiveSession.tsx:138).
AnchorOnArrival(next, clock) == Max(next, clock)

\* A chunk record, one per audio message that found an output context:
\*   dur     duration of the decoded buffer      st      decoding | started | failed
\*   epoch   interrupts handled at arrival       epochS  interrupts handled at source.start
\*   anchor  nextStartTimeRef found at start     start   the time given to source.start
\*   at      clock at source.start               ord     position in start order
\*   stopped, stopAt   source.stop() was called, and the clock then
\* onmessage, audio branch up to the await (LiveSession.tsx:135-141): with an
\* output context the anchor is raised to the clock and the decode starts;
\* without one the message is ignored.
OnMessageAudio(d) ==
  /\ ws \in {"open", "closing"}
  /\ Len(chunk) + interrupts < MaxMessages
  /\ IF outputAudioContextRef = "null"
       THEN UNCHANGED << nextStartTimeRef, chunk >>
       ELSE /\ nextStartTimeRef' = AnchorOnArrival(nextStartTimeRef, now)
            /\ chunk' = Append(chunk,
                 [dur |-> d, st |-> "decoding", epoch |-> interrupts,
                  start |-> 0, at |-> 0, ord |-> 0, epochS |-> 0,
                  anchor |-> 0, stopped |-> FALSE, stopAt |-> 0])
  /\ UNCHANGED << reactVars, captureRefs, outputAudioContextRef,
                  sourcesRef, interrupts, interruptAt, interruptAudio,
                  sessionRef, pc, capturedMuted, sendVars, histVars, ws,
                  promise, streamLive, capturing, now, released, cleanups,
                  appVars, uiVars >>

\* The start time handed to source.start (LiveSession.tsx:153).
StartTime(next, clock) == next

\* The continuation after the await, decode succeeded (LiveSession.tsx:148-157):
\* the buffer is started at the anchor, the anchor advances by its duration,
\* the source joins sourcesRef.
DecodeResolve(i) ==
  /\ i \in 1..Len(chunk)
  /\ chunk[i].st = "decoding"
  /\ LET t == StartTime(nextStartTimeRef, now)
     IN  /\ chunk' = [chunk EXCEPT ![i] =
                        [@ EXCEPT !.st = "started", !.start = t, !.at = now,
                                  !.ord = Cardinality(Started) + 1,
                                  !.epochS = interrupts,
                                  !.anchor = nextStartTimeRef]]
         /\ nextStartTimeRef' = t + chunk[i].dur
  /\ sourcesRef' = sourcesRef \cup {i}
  /\ UNCHANGED << reactVars, captureRefs, outputAudioContextRef,
                  interrupts, interruptAt, interruptAudio, sessionRef, pc,
                  capturedMuted, sendVars, histVars, ws, promise,
                  streamLive, capturing, now, released, cleanups, appVars,
                  uiVars >>

\* A failed decode that advances the anchor as if the buffer had been
\* scheduled.
DecodeRejectAdvances(i) ==
  /\ i \in 1..Len(chunk)
  /\ chunk[i].st = "decoding"
  /\ chunk' = [chunk EXCEPT ![i] = [@ EXCEPT !.st = "failed"]]
  /\ nextStartTimeRef' = nextStartTimeRef + chunk[i].dur
  /\ UNCHANGED << reactVars, captureRefs, outputAudioContextRef,
                  sourcesRef, interrupts, interruptAt, interruptAudio,
                  sessionRef, pc, capturedMuted, sendVars, histVars, ws,
                  promise, streamLive, capturing, now, released, cleanups,
                  appVars, uiVars >>

\* The continuation after the await, decode failed (LiveSession.tsx:158-160).
DecodeReject(i) ==
  /\ i \in 1..Len(chunk)
  /\ chunk[i].st = "decoding"
  /\ chunk' = [chunk EXCEPT ![i] = [@ EXCEPT !.st = "failed"]]
  /\ UNCHANGED << reactVars, captureRefs, outputAudioContextRef,
                  nextStartTimeRef, sourcesRef, interrupts, interruptAt,
                  interruptAudio, sessionRef, pc, capturedMuted, sendVars,
                  histVars, ws, promise, streamLive, capturing, now,
                  released, cleanups, appVars, uiVars >>

\* A started buffer plays from EffStart until it ends or is stopped; the
\* clock value up to which it has been rendered so far.
RenderedUntil(c, clock) ==
  IF c.stopped THEN (IF c.stopAt < EffEnd(c) THEN c.stopAt ELSE EffEnd(c))
  ELSE (IF clock < EffEnd(c) THEN clock ELSE EffEnd(c))

\* Some of the buffer's samples have been rendered.
Played(c, clock) == c.st = "started" /\ EffStart(c) < RenderedUntil(c, clock)

\* An onended that empties sourcesRef.
OnEndedClears(i) ==
  /\ i \in Started
  /\ \/ i \in sourcesRef /\ now >= EffEnd(chunk[i])
     \/ chunk[i].stopped
  /\ sourcesRef' = {}
  /\ UNCHANGED << reactVars, captureRefs, outputAudioContextRef,
                  nextStartTimeRef, chunk, interrupts, interruptAt,
                  interruptAudio, sessionRef, pc, capturedMuted, sendVars,
                  histVars, ws, promise, streamLive, capturing, now,
                  released, cleanups, appVars, uiVars >>

\* source.onended (LiveSession.tsx:151): fires for a member of sourcesRef
\* that has played to its end, and for a stopped source; it deletes the
\* source from sourcesRef.
OnEnded(i) ==
  /\ i \in Started
  /\ \/ i \in sourcesRef /\ now >= EffEnd(chunk[i])
     \/ chunk[i].stopped
  /\ sourcesRef' = sourcesRef \ {i}
  /\ UNCHANGED << reactVars, captureRefs, outputAudioContextRef,
                  nextStartTimeRef, chunk, interrupts, interruptAt,
                  interruptAudio, sessionRef, pc, capturedMuted, sendVars,
                  histVars, ws, promise, streamLive, capturing, now,
                  released, cleanups, appVars, uiVars >>

\* The output context's clock advances by one tick while the context runs.
Tick ==
  /\ pc # "idle"
  /\ released["outputCtx"] = 0
  /\ now < MaxClock
  /\ now' = now + 1
  /\ UNCHANGED << reactVars, captureRefs, outputAudioContextRef, playVars,
                  sessionRef, pc, capturedMuted, sendVars, histVars, ws,
                  promise, streamLive, capturing, released, cleanups,
                  appVars, uiVars >>

\* ---------------------------------------------------------- cleanupAudio
\* A release that does not look at the ref first.
ReleaseUnguarded(ref, rel, r) == [rel EXCEPT ![r] = @ + 1]

\* A ref that holds something is released once and set to null
\* (LiveSession.tsx:32-47).
Release(ref, rel, r) == IF ref = "null" THEN rel ELSE [rel EXCEPT ![r] = @ + 1]

\* cleanupAudio (LiveSession.tsx:31-63), the unmount effect: the view is
\* unmounted when onClose has set the application's view to CHAT
\* (App.tsx:670-672).
CleanupAudio ==
  /\ pc # "idle"
  /\ cleanups < MaxCleanups
  /\ cleanups' = cleanups + 1
  /\ view' = "CHAT"
  /\ processorRef' = "null"
  /\ sourceNodeRef' = "null"
  /\ capturing' = IF processorRef = "null" /\ sourceNodeRef = "null"
                    THEN capturing ELSE FALSE
  /\ streamRef' = "null"
  /\ streamLive' = IF streamRef = "null" THEN streamLive ELSE FALSE
  /\ inputAudioContextRef' = "null"
  /\ IF outputAudioContextRef = "null"
       THEN UNCHANGED << chunk, sourcesRef >>
       ELSE /\ chunk' = StopAll(chunk, sourcesRef, now)
            /\ sourcesRef' = {}
  /\ outputAudioContextRef' = "null"
  /\ sessionRef' = "null"
  /\ LET r1 == Release(processorRef, released, "processor")
         r2 == Release(sourceNodeRef, r1, "sourceNode")
         r3 == Release(streamRef, r2, "stream")
         r4 == Release(inputAudioContextRef, r3, "inputCtx")
         r5 == Release(outputAudioContextRef, r4, "outputCtx")
     IN  IF sessionRef = "null"
           THEN /\ released' = r5
                /\ UNCHANGED << sent, ws, thenQueue >>
           ELSE CASE promise = "resolved" ->
                       LET out == SessionClose([sent |-> sent, ws |-> ws,
                                                closes |-> r5["session"]])
                       IN  /\ released' = [r5 EXCEPT !["session"] = out.closes]
                           /\ ws' = out.ws
                           /\ UNCHANGED << sent, thenQueue >>
                  [] promise = "pending" ->
                       /\ thenQueue' = Append(thenQueue, [op |-> "close"])
                       /\ released' = r5
                       /\ UNCHANGED << sent, ws >>
                  [] OTHER ->
                       /\ released' = r5
                       /\ UNCHANGED << sent, ws, thenQueue >>
  /\ UNCHANGED << reactVars, nextStartTimeRef, interrupts, interruptAt,
                  interruptAudio, pc, capturedMuted, frames, histVars,
                  promise, now, connects, backpressured, uiVars >>

\* ------------------------------------------------------- specifications
\* The session's life: mount, connect, capture, transport events, unmount.
Next ==
  \/ ConnectToLive
  \/ GetUserMediaResolve
  \/ GetUserMediaReject
  \/ OnOpen
  \/ SessionResolve
  \/ OnClose
  \/ OnError
  \/ OnAudioProcess
  \/ ToggleMute
  \/ CleanupAudio
  \/ ConnectReject
  \/ Backpressure

Spec == Init /\ [][Next]_vars

\* The state of an open session: connectToLive ran to its end, onopen built
\* the capture graph and the session promise resolved.
InitPlay ==
  /\ isConnected = TRUE /\ isMuted = FALSE /\ error = "none"
  /\ inputAudioContextRef = "open" /\ outputAudioContextRef = "open"
  /\ nextStartTimeRef = 0 /\ sourcesRef = {}
  /\ streamRef = "stream" /\ sessionRef = "promise"
  /\ processorRef = "node" /\ sourceNodeRef = "node"
  /\ pc = "done" /\ capturedMuted = FALSE
  /\ ws = "open" /\ promise = "resolved" /\ thenQueue = << >>
  /\ streamLive = TRUE /\ capturing = TRUE /\ now = 0
  /\ chunk = << >> /\ interrupts = 0 /\ interruptAt = 0
  /\ interruptAudio = FALSE
  /\ frames = 0 /\ sent = << >>
  /\ released = [r \in Resources |-> 0]
  /\ cleanups = 0 /\ sawError = FALSE /\ sawClose = FALSE
  /\ view = "LIVE_SESSION" /\ connects = 1 /\ backpressured = FALSE
  /\ UiInit

\* Playback in an open session: server messages, decode completions, the
\* output clock, onended.
NextPlay ==
  \/ \E a \in BOOLEAN : OnMessageInterrupted(a)
  \/ \E d \in Durations : OnMessageAudio(d)
  \/ \E i \in 1..Len(chunk) : DecodeResolve(i)
  \/ \E i \in 1..Len(chunk) : DecodeReject(i)
  \/ \E i \in 1..Len(chunk) : OnEnded(i)
  \/ Tick

SpecPlay == InitPlay /\ [][NextPlay]_vars

\* Playback in a session that the user may close at any moment.
NextPlayClose ==
  \/ NextPlay
  \/ CleanupAudio

SpecPlayClose == InitPlay /\ [][NextPlayClose]_vars

\* ================================================================ App.tsx
\* ------------------------------------------------------------ the calendar
IsLeap(y) == (y % 4 = 0 /\ y % 100 # 0) \/ y % 400 = 0

DaysIn(y, m) ==
  IF m = 2 THEN (IF IsLeap(y) THEN 29 ELSE 28)
  ELSE IF m \in {4, 6, 9, 11} THEN 30 ELSE 31

Dates ==
  {dt \in Years \X (1..MaxMonth) \X (1..31) : dt[3] <= DaysIn(dt[1], dt[2])}

\* A Date normalises fields out of range: a day past the end of its month
\* runs on into the following months.
RECURSIVE Normalize(_, _, _)
Normalize(y, m, d) ==
  IF m > 12 THEN Normalize(y + 1, m - 12, d)
  ELSE IF d > DaysIn(y, m) THEN Normalize(y, m + 1, d - DaysIn(y, m))
  ELSE << y, m, d >>

\* Date.prototype.setFullYear, setMonth, setDate with one argument
\* (App.tsx:263-265): one field is replaced, the others kept, the result
\* normalised.
SetFullYear(dt, y) == Normalize(y, dt[2], dt[3])
SetMonth(dt, m) == Normalize(dt[1], m, dt[3])
SetDate(dt, d) == Normalize(dt[1], dt[2], d)

PrevDay(dt) ==
  IF dt[3] > 1 THEN << dt[1], dt[2], dt[3] - 1 >>
  ELSE IF dt[2] > 1 THEN << dt[1], dt[2] - 1, DaysIn(dt[1], dt[2] - 1) >>
  ELSE << dt[1] - 1, 12, 31 >>

NextDay(dt) == Normalize(dt[1], dt[2], dt[3] + 1)

\* new Date('YYYY-MM-DD') is midnight UTC of that day; getFullYear, getMonth
\* and getDate read it in local time (App.tsx:262-265): west of UTC that is
\* the evening before.
ParseLocal(fd, tz) == IF tz = "west" THEN PrevDay(fd) ELSE fd

\* toISOString (App.tsx:271): the local date and hour as a UTC instant, the
\* zones being one hour east or west of UTC.
ToISO(dt, h, tz) ==
  CASE tz = "east" -> IF h = 0 THEN [date |-> PrevDay(dt), hour |-> MaxHour]
                      ELSE [date |-> dt, hour |-> h - 1]
    [] tz = "west" -> IF h = MaxHour THEN [date |-> NextDay(dt), hour |-> 0]
                      ELSE [date |-> dt, hour |-> h + 1]
    [] OTHER -> [date |-> dt, hour |-> h]

\* new Date(entry.date) read in local time (App.tsx:765-768).
LocalOf(iso, tz) ==
  CASE tz = "east" -> IF iso.hour = MaxHour
                        THEN [date |-> NextDay(iso.date), hour |-> 0]
                        ELSE [date |-> iso.date, hour |-> iso.hour + 1]
    [] tz = "west" -> IF iso.hour = 0
                        THEN [date |-> PrevDay(iso.date), hour |-> MaxHour]
                        ELSE [date |-> iso.date, hour |-> iso.hour - 1]
    [] OTHER -> iso

\* The local date handleSaveEntry gives the new entry (App.tsx:259-266).
EntryDate(nowDate, fd, tz) ==
  IF fd = NoDate THEN nowDate
  ELSE LET selected == ParseLocal(fd, tz)
           a == SetFullYear(nowDate, selected[1])
           b == SetMonth(a, selected[2])
       IN  SetDate(b, selected[3])

\* --------------------------------------------------------------- the diary
\* An entry is [id, date, backfill]: date is the instant toISOString stored,
\* backfill the filterDate its save used.
AppViews == {"DASHBOARD", "NEW_ENTRY", "SETTINGS"}

\* Neither the detail dialog nor the clear-data dialog covers the page
\* (App.tsx:758-759, 877-878).
NoDialog == selectedEntry = 0 /\ clearDataStep = 0

\* The navigation buttons (App.tsx:925-957).
Navigate(v) ==
  /\ NoDialog
  /\ view \in AppViews /\ v \in AppViews /\ v # view
  /\ view' = v
  /\ UNCHANGED << notDiaryVars, diaryVars >>

\* A click on an entry of the list (App.tsx:1098), shown when it passes the
\* date filter (App.tsx:498-503); the effect on selectedEntry resets the
\* delete confirmation (App.tsx:181-184).
SelectEntry(k) ==
  /\ NoDialog
  /\ view = "DASHBOARD"
  /\ k \in 1..Len(entries)
  /\ filterDate = NoDate \/ entries[k].date.date = filterDate
  /\ selectedEntry' = entries[k].id
  /\ isDeleteConfirming' = FALSE
  /\ UNCHANGED << notDiaryVars, view, entries, isAnalyzing, filterDate,
                  clearDataStep, saving, today, timeZone, clears, nextId,
                  deleted >>

\* The detail dialog's close button (App.tsx:778) and the effect.
CloseEntry ==
  /\ selectedEntry # 0
  /\ selectedEntry' = 0
  /\ isDeleteConfirming' = FALSE
  /\ UNCHANGED << notDiaryVars, view, entries, isAnalyzing, filterDate,
                  clearDataStep, saving, today, timeZone, clears, nextId,
                  deleted >>

\* The delete button of the detail dialog (App.tsx:863-864).
AskDelete ==
  /\ selectedEntry # 0
  /\ ~isDeleteConfirming
  /\ isDeleteConfirming' = TRUE
  /\ UNCHANGED << notDiaryVars, view, entries, selectedEntry, isAnalyzing,
                  filterDate, clearDataStep, saving, today, timeZone, clears,
                  nextId, deleted >>

\* The cancel button of the delete confirmation (App.tsx:849-850).
CancelDelete ==
  /\ selectedEntry # 0
  /\ isDeleteConfirming
  /\ isDeleteConfirming' = FALSE
  /\ UNCHANGED << notDiaryVars, view, entries, selectedEntry, isAnalyzing,
                  filterDate, clearDataStep, saving, today, timeZone, clears,
                  nextId, deleted >>

\* A delete that removes the newest entry, whichever is selected.
HandleDeleteEntryNewest ==
  /\ selectedEntry # 0
  /\ isDeleteConfirming
  /\ entries' = Tail(entries)
  /\ selectedEntry' = 0
  /\ isDeleteConfirming' = FALSE
  /\ deleted' = deleted \cup {selectedEntry}
  /\ UNCHANGED << notDiaryVars, view, isAnalyzing, filterDate, clearDataStep,
                  saving, today, timeZone, clears, nextId >>

\* The confirm button of the delete confirmation calls
\* handleDeleteEntry(selectedEntry.id) (App.tsx:855-856, 293-297); the effect
\* on selectedEntry follows (App.tsx:181-184).
HandleDeleteEntry ==
  /\ selectedEntry # 0
  /\ isDeleteConfirming
  /\ LET Keep(e) == e.id # selectedEntry
     IN  entries' = SelectSeq(entries, Keep)
  /\ selectedEntry' = 0
  /\ isDeleteConfirming' = FALSE
  /\ deleted' = deleted \cup {selectedEntry}
  /\ UNCHANGED << notDiaryVars, view, isAnalyzing, filterDate, clearDataStep,
                  saving, today, timeZone, clears, nextId >>

\* The save button, enabled with a draft and no analysis running
\* (App.tsx:1242-1243): handleSaveEntry up to its await (App.tsx:251-256).
\* The continuation keeps this render's entries and filterDate.
HandleSaveEntry ==
  /\ NoDialog
  /\ view = "NEW_ENTRY"
  /\ ~isAnalyzing
  /\ nextId <= MaxSaves
  /\ isAnalyzing' = TRUE
  /\ saving' = << [entries |-> entries, filterDate |-> filterDate] >>
  /\ UNCHANGED << notDiaryVars, view, entries, selectedEntry,
                  isDeleteConfirming, filterDate, clearDataStep, today,
                  timeZone, clears, nextId, deleted >>

\* handleSaveEntry after analyzeDiaryEntry has resolved (App.tsx:256-291).
AnalyzeResolve ==
  /\ saving # << >>
  /\ LET local == EntryDate(today.date, saving[1].filterDate, timeZone)
         newEntry == [id |-> nextId,
                      date |-> ToISO(local, today.hour, timeZone),
                      backfill |-> saving[1].filterDate]
     IN  entries' = << newEntry >> \o saving[1].entries
  /\ nextId' = nextId + 1
  /\ filterDate' = NoDate
  /\ view' = "DASHBOARD"
  /\ isAnalyzing' = FALSE
  /\ saving' = << >>
  /\ UNCHANGED << notDiaryVars, selectedEntry, isDeleteConfirming,
                  clearDataStep, today, timeZone, clears, deleted >>

\* The clear-data link of the settings view (App.tsx:1422-1428).
OpenClearData ==
  /\ NoDialog
  /\ view = "SETTINGS"
  /\ clearDataStep' = 1
  /\ UNCHANGED << notDiaryVars, view, entries, selectedEntry,
                  isDeleteConfirming, isAnalyzing, filterDate, saving, today,
                  timeZone, clears, nextId, deleted >>

\* A confirm button that clears at the first click.
ConfirmClearDataAtOnce ==
  /\ clearDataStep > 0
  /\ clears < MaxClears
  /\ clears' = clears + 1
  /\ entries' = << >> /\ selectedEntry' = 0 /\ isDeleteConfirming' = FALSE
  /\ isAnalyzing' = FALSE /\ filterDate' = NoDate /\ clearDataStep' = 0
  /\ saving' = << >>
  /\ view' = "DASHBOARD"
  /\ UNCHANGED << notDiaryVars, today, timeZone, nextId, deleted >>

\* The dialog's confirm button (App.tsx:895-899): the first click goes on to
\* the final warning, the second calls handleClearData (App.tsx:380-383):
\* localStorage is cleared and the page reloaded, which mounts App anew with
\* nothing stored and drops a save that was waiting.
ConfirmClearData ==
  /\ clearDataStep > 0
  /\ IF clearDataStep = 1
       THEN /\ clearDataStep' = 2
            /\ UNCHANGED << view, entries, selectedEntry, isDeleteConfirming,
                            isAnalyzing, filterDate, saving, clears >>
       ELSE /\ clears < MaxClears
            /\ clears' = clears + 1
            /\ entries' = << >> /\ selectedEntry' = 0
            /\ isDeleteConfirming' = FALSE /\ isAnalyzing' = FALSE
            /\ filterDate' = NoDate /\ clearDataStep' = 0
            /\ saving' = << >>
            /\ view' = "DASHBOARD"
  /\ UNCHANGED << notDiaryVars, today, timeZone, nextId, deleted >>

\* The dialog's cancel button (App.tsx:908-909).
CancelClearData ==
  /\ clearDataStep > 0
  /\ clearDataStep' = 0
  /\ UNCHANGED << notDiaryVars, view, entries, selectedEntry,
                  isDeleteConfirming, isAnalyzing, filterDate, saving, today,
                  timeZone, clears, nextId, deleted >>

\* The diary: navigation, saving, the detail dialog, the clear-data dialog.
InitDiary == LiveInit /\ view = "DASHBOARD" /\ UiInit

NextDiary ==
  \/ \E v \in AppViews : Navigate(v)
  \/ \E k \in 1..Len(entries) : SelectEntry(k)
  \/ CloseEntry
  \/ AskDelete
  \/ CancelDelete
  \/ HandleDeleteEntry
  \/ HandleSaveEntry
  \/ AnalyzeResolve
  \/ OpenClearData
  \/ ConfirmClearData
  \/ CancelClearData

SpecDiary == InitDiary /\ [][NextDiary]_vars

\* The date of a back-filled entry: the new-entry view with a draft, for
\* every current date, hour and zone and every selected date.
InitDate ==
  /\ LiveInit /\ view = "NEW_ENTRY"
  /\ entries = << >> /\ selectedEntry = 0 /\ isDeleteConfirming = FALSE
  /\ isAnalyzing = FALSE /\ clearDataStep = 0 /\ saving = << >>
  /\ clears = 0 /\ deleted = {} /\ nextId = MaxSaves
  /\ MediaInit
  /\ filterDate \in Dates
  /\ today \in [date : Dates, hour : Hours]
  /\ timeZone \in TimeZones

NextDate ==
  \/ HandleSaveEntry
  \/ AnalyzeResolve

SpecDate == InitDate /\ [][NextDate]_vars

\* ---------------------------------------------------------- the camera
\* The effect on [isCameraOpen, cameraStream] (App.tsx:225-231), run after
\* the render that follows a handler: with the overlay closed, a stream held
\* in cameraStream is stopped and the state set to null.
CameraEffect(open, stream, live) ==
  IF ~open /\ stream # 0
    THEN [stream |-> 0, live |-> live \ {stream}]
    ELSE [stream |-> stream, live |-> live]

OtherMode(m) == IF m = "environment" THEN "user" ELSE "environment"

\* startCamera up to its await (App.tsx:422-433), in a secure context: the
\* overlay opens, the stream of this render's cameraStream is stopped, and
\* getUserMedia is called.
StartCameraCall(mode) ==
  /\ camAcquired < MaxStreams
  /\ isCameraOpen' = TRUE
  /\ camLive' = camLive \ {cameraStream}
  /\ camAcquired' = camAcquired + 1
  /\ camPending' = camPending \cup {[id |-> camAcquired + 1, mode |-> mode]}
  /\ UNCHANGED << cameraStream, facingMode >>

\* The camera buttons of the new-entry view and of the settings view
\* (App.tsx:1219, 1322), with no overlay above them.
StartCamera ==
  /\ NoDialog /\ ~isCameraOpen
  /\ view \in {"NEW_ENTRY", "SETTINGS"}
  /\ StartCameraCall(IF view = "SETTINGS" THEN "user" ELSE "environment")
  /\ UNCHANGED notCameraVars

\* The overlay's switch button (App.tsx:722, 489-492).
SwitchCamera ==
  /\ isCameraOpen
  /\ StartCameraCall(OtherMode(facingMode))
  /\ UNCHANGED notCameraVars

\* startCamera after getUserMedia has resolved (App.tsx:434-438), then the
\* effect.
CameraResolve(p) ==
  /\ p \in camPending
  /\ camPending' = camPending \ {p}
  /\ facingMode' = p.mode
  /\ LET e == CameraEffect(isCameraOpen, p.id, camLive \cup {p.id})
     IN  cameraStream' = e.stream /\ camLive' = e.live
  /\ UNCHANGED << isCameraOpen, camAcquired, notCameraVars >>

\* startCamera's catch (App.tsx:439-443), then the effect.
CameraReject(p) ==
  /\ p \in camPending
  /\ camPending' = camPending \ {p}
  /\ isCameraOpen' = FALSE
  /\ LET e == CameraEffect(FALSE, cameraStream, camLive)
     IN  cameraStream' = e.stream /\ camLive' = e.live
  /\ UNCHANGED << facingMode, camAcquired, notCameraVars >>

\* The overlay's close button (App.tsx:683), then the effect.
CloseCamera ==
  /\ isCameraOpen
  /\ isCameraOpen' = FALSE
  /\ LET e == CameraEffect(FALSE, cameraStream, camLive)
     IN  cameraStream' = e.stream /\ camLive' = e.live
  /\ UNCHANGED << facingMode, camPending, camAcquired, notCameraVars >>

\* The shutter (App.tsx:716, 447-487): the video and the canvas are mounted
\* with the overlay; the overlay closes and cameraStream is stopped.
TakePhoto ==
  /\ isCameraOpen
  /\ isCameraOpen' = FALSE
  /\ camLive' = camLive \ {cameraStream}
  /\ cameraStream' = 0
  /\ UNCHANGED << facingMode, camPending, camAcquired, notCameraVars >>

InitCamera == LiveInit /\ view \in {"NEW_ENTRY", "SETTINGS"} /\ UiInit

NextCamera ==
  \/ StartCamera
  \/ SwitchCamera
  \/ \E p \in camPending : CameraResolve(p)
  \/ \E p \in camPending : CameraReject(p)
  \/ CloseCamera
  \/ TakePhoto

SpecCamera == InitCamera /\ [][NextCamera]_vars

\* ------------------------------------------------------ the voice recorder
\* The record button while it reads "start" (App.tsx:1229): startRecording
\* up to its await (App.tsx:305-308), in a secure context.  No state is set
\* before getUserMedia resolves, so the button stays as it is.
StartRecording ==
  /\ NoDialog /\ ~isCameraOpen
  /\ view = "NEW_ENTRY"
  /\ ~isRecording
  /\ micAcquired < MaxStreams
  /\ micAcquired' = micAcquired + 1
  /\ recPending' = recPending \cup {micAcquired + 1}
  /\ UNCHANGED << isRecording, isTranscribing, mediaRecorderRef, recActive,
                  transcribing, micLive, notRecVars >>

\* startRecording after getUserMedia has resolved (App.tsx:309-338): a
\* recorder on the new stream is put in mediaRecorderRef and started.
MicResolve(s) ==
  /\ s \in recPending
  /\ recPending' = recPending \ {s}
  /\ micLive' = micLive \cup {s}
  /\ mediaRecorderRef' = s
  /\ recActive' = recActive \cup {s}
  /\ isRecording' = TRUE
  /\ UNCHANGED << isTranscribing, transcribing, micAcquired, notRecVars >>

\* startRecording's catch (App.tsx:339-342): an alert.
MicReject(s) ==
  /\ s \in recPending
  /\ recPending' = recPending \ {s}
  /\ UNCHANGED << isRecording, isTranscribing, mediaRecorderRef, recActive,
                  transcribing, micLive, micAcquired, notRecVars >>

\* The record button while it reads "stop" (App.tsx:1229): stopRecording
\* (App.tsx:345-350) stops the recorder of mediaRecorderRef, whose onstop
\* (App.tsx:319-324) sets isTranscribing and calls transcribeAudio.  stop()
\* on a recorder that is not recording throws before setIsRecording.
StopRecording ==
  /\ NoDialog /\ ~isCameraOpen
  /\ view = "NEW_ENTRY"
  /\ mediaRecorderRef # 0 /\ isRecording
  /\ IF mediaRecorderRef \in recActive
       THEN /\ recActive' = recActive \ {mediaRecorderRef}
            /\ transcribing' = transcribing \cup {mediaRecorderRef}
            /\ isRecording' = FALSE
            /\ isTranscribing' = TRUE
       ELSE UNCHANGED << recActive, transcribing, isRecording,
                         isTranscribing >>
  /\ UNCHANGED << mediaRecorderRef, recPending, micLive, micAcquired,
                  notRecVars >>

\* onstop after transcribeAudio has resolved (App.tsx:325-326, 330-333):
\* the text is appended to the draft; the stream's tracks are stopped.
TranscribeResolve(s) ==
  /\ s \in transcribing
  /\ transcribing' = transcribing \ {s}
  /\ isTranscribing' = FALSE
  /\ micLive' = micLive \ {s}
  /\ UNCHANGED << isRecording, mediaRecorderRef, recPending, recActive,
                  micAcquired, notRecVars >>

\* onstop after transcribeAudio has rejected (App.tsx:327-333): an alert;
\* the stream's tracks are stopped.
TranscribeReject(s) ==
  /\ s \in transcribing
  /\ transcribing' = transcribing \ {s}
  /\ isTranscribing' = FALSE
  /\ micLive' = micLive \ {s}
  /\ UNCHANGED << isRecording, mediaRecorderRef, recPending, recActive,
                  micAcquired, notRecVars >>

InitRecorder == LiveInit /\ view = "NEW_ENTRY" /\ UiInit

NextRecorder ==
  \/ StartRecording
  \/ \E s \in recPending : MicResolve(s)
  \/ \E s \in recPending : MicReject(s)
  \/ StopRecording
  \/ \E s \in transcribing : TranscribeResolve(s)
  \/ \E s \in transcribing : TranscribeReject(s)

SpecRecorder == InitRecorder /\ [][NextRecorder]_vars

\* ---------------------------------------------------------- the daily joke
\* The test of the daily-joke effect (App.tsx:213): no joke, or one of
\* another day.
Stale(joke, date) == joke = << >> \/ joke[1].date # date

\* fetchDailyJoke is called n times on the given date; the log keeps, for
\* every call, whether localStorage held no joke of that date.
FetchJokes(n, date, stored) ==
  /\ fetches + n <= MaxFetches
  /\ fetches' = fetches + n
  /\ jokePending' = jokePending \cup
       {[id |-> i, date |-> date] : i \in (fetches + 1)..(fetches + n)}
  /\ jokeLog' = jokeLog \cup
       {[id |-> i, stale |-> Stale(stored, date)] :
          i \in (fetches + 1)..(fetches + n)}

\* The effects of App's first render, in their order: the load effect
\* (App.tsx:157-179) asks for the stored joke to be put in state; the
\* daily-joke effect (App.tsx:210-223) runs in the same pass with the
\* dailyJoke of the first render, null, and calls fetchDailyJoke.  The render
\* that follows has the loaded joke and runs the effect again.
Mount ==
  /\ ~mounted
  /\ mounted' = TRUE
  /\ dailyJoke' = storedJoke
  /\ FetchJokes(IF storedJoke # << >> /\ Stale(storedJoke, today.date)
                  THEN 2 ELSE 1,
                today.date, storedJoke)
  /\ UNCHANGED << storedJoke, reloads, today, notJokeVars >>

\* checkAndFetchJoke after fetchDailyJoke has resolved (App.tsx:215-218):
\* the joke is dated with the day the effect ran on, put in state and in
\* localStorage; the effect runs again on the new dailyJoke.
FetchResolve(p) ==
  /\ p \in jokePending
  /\ dailyJoke' = JokeOf(p.date, p.id)
  /\ storedJoke' = JokeOf(p.date, p.id)
  /\ LET n == IF p.date # today.date THEN 1 ELSE 0
     IN  /\ fetches + n <= MaxFetches
         /\ fetches' = fetches + n
         /\ jokePending' = (jokePending \ {p}) \cup
              {[id |-> i, date |-> today.date] :
                 i \in (fetches + 1)..(fetches + n)}
         /\ jokeLog' = jokeLog \cup
              {[id |-> i, stale |-> TRUE] :
                 i \in (fetches + 1)..(fetches + n)}
  /\ UNCHANGED << mounted, reloads, today, notJokeVars >>

\* The page is reloaded: App is constructed anew, localStorage stays, a
\* fetch in flight is lost.
Reload ==
  /\ mounted
  /\ reloads < MaxReloads
  /\ reloads' = reloads + 1
  /\ mounted' = FALSE
  /\ dailyJoke' = << >>
  /\ jokePending' = {}
  /\ UNCHANGED << storedJoke, jokeLog, fetches, today, notJokeVars >>

\* Midnight passes (new Date() of App.tsx:212 gives the next day from now
\* on); nothing in the application runs.
Midnight ==
  /\ today.date[3] <= MaxDays
  /\ today' = [today EXCEPT !.date = NextDay(@)]
  /\ UNCHANGED << jokeVars, notJokeVars >>

\* App before its mount effects, localStorage holding no joke, yesterday's
\* or today's.
InitJoke ==
  /\ LiveInit /\ view = "DASHBOARD"
  /\ DiaryInit /\ nextId = 1
  /\ today = [date |-> << 2024, 1, 1 >>, hour |-> 0] /\ timeZone = "utc"
  /\ CameraInit /\ RecInit /\ ChatInit /\ ServiceInit
  /\ dailyJoke = << >>
  /\ storedJoke \in {<< >>, JokeOf(<< 2023, 12, 31 >>, 0),
                     JokeOf(<< 2024, 1, 1 >>, 0)}
  /\ jokePending = {} /\ mounted = FALSE /\ jokeLog = {} /\ fetches = 0
  /\ reloads = 0

NextJoke ==
  \/ Mount
  \/ \E p \in jokePending : FetchResolve(p)
  \/ Reload
  \/ Midnight

SpecJoke == InitJoke /\ [][NextJoke]_vars

\* ------------------------------------------------------ the chat assistant
\* What the textarea can hold: nothing, white space only, a text.
Inputs == {"", " ", "hi"}

\* !input.trim() (ChatAssistant.tsx:38)
Blank(s) == s \in {"", " "}

\* What sendMessage can resolve with: a text, or the empty string.
Replies == {"reply", ""}

\* The chat button of the navigation (App.tsx:955) mounts ChatAssistant
\* (App.tsx:1442-1444) in its initial state.
OpenChat ==
  /\ NoDialog /\ ~isCameraOpen
  /\ view \in AppViews
  /\ view' = "CHAT"
  /\ UNCHANGED << chatVars, notChatVars >>

\* Another button of the navigation (App.tsx:925-957) unmounts
\* ChatAssistant: its state is dropped, and a sendMessage call in flight
\* settles on a component that is gone.
LeaveChat(v) ==
  /\ view = "CHAT"
  /\ v \in AppViews
  /\ view' = v
  /\ messages' = InitMessages /\ input' = "" /\ isLoading' = FALSE
  /\ chatPending' = << >>
  /\ UNCHANGED << chatCalls, chatSends, notChatVars >>

\* The textarea's onChange (ChatAssistant.tsx:146).
SetInput(v) ==
  /\ view = "CHAT"
  /\ v \in Inputs /\ v # input
  /\ input' = v
  /\ UNCHANGED << messages, isLoading, chatPending, chatCalls, chatSends,
                  view, notChatVars >>

\* A handleSend that does not look at isLoading.
HandleSendWhileLoading ==
  /\ view = "CHAT"
  /\ chatCalls < MaxCalls
  /\ chatCalls' = chatCalls + 1
  /\ IF Blank(input)
       THEN UNCHANGED << messages, input, isLoading, chatPending, chatSends >>
       ELSE /\ messages' = Append(messages, [role |-> "user", text |-> input])
            /\ input' = ""
            /\ isLoading' = TRUE
            /\ chatSends' = chatSends + 1
            /\ chatPending' = << input >>
  /\ UNCHANGED << view, notChatVars >>

\* handleSend up to its await (ChatAssistant.tsx:37-58), called by the Enter
\* key (ChatAssistant.tsx:147-152) or by the send button.
HandleSend ==
  /\ view = "CHAT"
  /\ chatCalls < MaxCalls
  /\ chatCalls' = chatCalls + 1
  /\ IF Blank(input) \/ isLoading
       THEN UNCHANGED << messages, input, isLoading, chatPending, chatSends >>
       ELSE /\ messages' = Append(messages, [role |-> "user", text |-> input])
            /\ input' = ""
            /\ isLoading' = TRUE
            /\ chatSends' = chatSends + 1
            /\ chatPending' = << input >>
  /\ UNCHANGED << view, notChatVars >>

\* handleSend after sendMessage has resolved (ChatAssistant.tsx:60-66,
\* 76-78); an empty reply is shown as the placeholder.
SendResolve(r) ==
  /\ chatPending # << >>
  /\ messages' = Append(messages,
       [role |-> "model", text |-> IF r = "" THEN "placeholder" ELSE r])
  /\ isLoading' = FALSE
  /\ chatPending' = << >>
  /\ UNCHANGED << input, chatCalls, chatSends, view, notChatVars >>

\* handleSend's catch (ChatAssistant.tsx:67-78): the fixed connection-error
\* text.
SendReject ==
  /\ chatPending # << >>
  /\ messages' = Append(messages, [role |-> "model", text |-> "error"])
  /\ isLoading' = FALSE
  /\ chatPending' = << >>
  /\ UNCHANGED << input, chatCalls, chatSends, view, notChatVars >>

InitChat == LiveInit /\ view = "CHAT" /\ UiInit

NextChat ==
  \/ OpenChat
  \/ \E v \in AppViews : LeaveChat(v)
  \/ \E v \in Inputs : SetInput(v)
  \/ HandleSend
  \/ \E r \in Replies : SendResolve(r)
  \/ SendReject

\* The promise of sendMessage settles.
SendSettles == (\E r \in Replies : SendResolve(r)) \/ SendReject

SpecChat == InitChat /\ [][NextChat]_vars /\ WF_vars(SendSettles)

\* ------------------------------------------------------ MultiProviderChat
Providers == {"Gemini", "DeepSeek", "SiliconFlow"}

\* The texts of messages and replies.
Texts == {"a", "b"}

\* sendMessage up to its await (part_001:257-264, 271-274).  ChatAssistant
\* calls it only while no call is in flight (ChatAssistant.tsx:38, 49).  For
\* the third-party providers the user message is pushed before the request.
SendMessage(m) ==
  /\ sendCall = << >>
  /\ Len(sendReturn) < MaxSends
  /\ sendCall' = << [before |-> chatHistory, message |-> m] >>
  /\ chatHistory' = IF provider = "Gemini"
                      THEN chatHistory
                      ELSE Append(chatHistory, Msg("user", m))
  /\ UNCHANGED << provider, sendReturn, analyzeVars, notSessionVars >>

\* The request resolves (part_001:259-260, 264-266, 274-276): the reply is
\* pushed as the assistant's message and returned.
CallResolve(r) ==
  /\ sendCall # << >>
  /\ sendCall' = << >>
  /\ chatHistory' = IF provider = "Gemini"
                      THEN chatHistory
                      ELSE Append(chatHistory, Msg("assistant", r))
  /\ sendReturn' = Append(sendReturn,
       [kind |-> "text", before |-> sendCall[1].before])
  /\ UNCHANGED << provider, analyzeVars, notSessionVars >>

\* The request fails: callDeepSeek and callSiliconFlow rethrow (part_001:
\* 32-35, 66-69) and the catch returns the fixed error text (part_001:267-270,
\* 277-280), chatHistory staying as the push left it; the Gemini path has no
\* catch and the call throws (part_001:259).
CallReject ==
  /\ sendCall # << >>
  /\ sendCall' = << >>
  /\ sendReturn' = Append(sendReturn,
       [kind |-> IF provider = "Gemini" THEN "threw" ELSE "errorText",
        before |-> sendCall[1].before])
  /\ UNCHANGED << provider, chatHistory, analyzeVars, notSessionVars >>

\* A session of any provider as the constructor leaves it (part_001:234-255);
\* the Gemini session keeps no chatHistory.
InitSession ==
  /\ LiveInit /\ view = "CHAT"
  /\ DiaryInit /\ nextId = 1
  /\ today = [date |-> << 2024, 1, 1 >>, hour |-> 0] /\ timeZone = "utc"
  /\ CameraInit /\ RecInit /\ JokeInit /\ ChatInit
  /\ provider \in Providers
  /\ chatHistory = IF provider = "Gemini"
                     THEN << >>
                     ELSE << Msg("system", "instruction") >>
  /\ sendCall = << >> /\ sendReturn = << >>
  /\ analyzeArgs = [config |-> << >>, attachments |-> << >>]
  /\ analyzePc = "idle" /\ analyzeCalls = << >> /\ analyzeResult = << >>

NextSession ==
  \/ \E m \in Texts : SendMessage(m)
  \/ \E r \in Texts : CallResolve(r)
  \/ CallReject

SpecSession == InitSession /\ [][NextSession]_vars

\* ------------------------------------------------------ analyzeDiaryEntry
\* JavaScript's undefined and null, as values a key or a reply can have.
Undefined == "<undefined>"
JsNull == "<null>"

\* config is << >> when the argument is left out, or one record; apiKey is
\* undefined, empty or a key.
Keys == {Undefined, "", "sk"}
Configs ==
  {<< >>} \cup {<< [provider |-> p, apiKey |-> k] >> : p \in Providers, k \in Keys}

\* An attachment is a base64 data URL or some other string.
AttachmentLists ==
  UNION {[1..n -> {"dataurl", "other"}] : n \in 0..MaxAttachments}

\* What a provider request can give back as the reply's text: text that
\* parses as the analysis, text that does not parse, the empty string, null
\* or undefined.
Contents == {"json", "garbage", "", JsNull, Undefined}

\* The truth value JavaScript gives a key or a text.
Truthy(x) == x \notin {Undefined, JsNull, ""}

\* JSON.parse (part_001:115, 127, 168): the argument is turned into a
\* string first, so null becomes the text null and parses to null;
\* undefined, the empty string and other text throw.
JsonParse(c) ==
  IF c = "json" THEN [threw |-> FALSE, value |-> "analysis"]
  ELSE IF c = JsNull THEN [threw |-> FALSE, value |-> JsNull]
  ELSE [threw |-> TRUE, value |-> Undefined]

\* part_001:87-94
ProviderOf(config) == IF config = << >> THEN "Gemini" ELSE config[1].provider
ApiKeyOf(config) == IF config = << >> THEN Undefined ELSE config[1].apiKey

\* A routing that does not look at the attachments.
RouteWithAttachments(args) ==
  LET p == ProviderOf(args.config)
      apiKey == ApiKeyOf(args.config)
  IN  IF p = "DeepSeek" /\ Truthy(apiKey) THEN "DeepSeek"
      ELSE IF p = "SiliconFlow" /\ Truthy(apiKey) THEN "SiliconFlow"
      ELSE "Gemini"

\* part_001:93-94, 106, 117, 129
Route(args) ==
  LET hasAttachments == Len(args.attachments) > 0
      p == ProviderOf(args.config)
      apiKey == ApiKeyOf(args.config)
  IN  IF p = "DeepSeek" /\ Truthy(apiKey) /\ ~hasAttachments THEN "DeepSeek"
      ELSE IF p = "SiliconFlow" /\ Truthy(apiKey) /\ ~hasAttachments
        THEN "SiliconFlow"
      ELSE "Gemini"

\* analyzeDiaryEntry up to its await (part_001:85-165): one request, to the
\* provider the routing gives.
AnalyzeDiaryEntry ==
  /\ analyzePc = "idle"
  /\ analyzePc' = "awaiting"
  /\ analyzeCalls' = Append(analyzeCalls, Route(analyzeArgs))
  /\ UNCHANGED << analyzeArgs, analyzeResult, sessionVars, notAnalyzeVars >>

\* The request resolves with a text (part_001:115, 127, 167-170): the third
\* parties' text goes to JSON.parse as it is, Gemini's only when it is
\* truthy; what throws ends in the catch, which returns the fallback
\* (part_001:172-180).
RequestResolve(c) ==
  /\ analyzePc = "awaiting"
  /\ analyzePc' = "done"
  /\ LET route == analyzeCalls[Len(analyzeCalls)]
         parsed == JsonParse(c)
         value == IF route = "Gemini" /\ ~Truthy(c) THEN "fallback"
                  ELSE IF parsed.threw THEN "fallback"
                  ELSE parsed.value
     IN  analyzeResult' = << [reply |-> c, value |-> value] >>
  /\ UNCHANGED << analyzeArgs, analyzeCalls, sessionVars, notAnalyzeVars >>

\* The request fails: the catch returns the fallback (part_001:172-180).
RequestReject ==
  /\ analyzePc = "awaiting"
  /\ analyzePc' = "done"
  /\ analyzeResult' = << [reply |-> "failed", value |-> "fallback"] >>
  /\ UNCHANGED << analyzeArgs, analyzeCalls, sessionVars, notAnalyzeVars >>

\* analyzeDiaryEntry before a call, for every configuration and list of
\* attachments.
InitAnalyze ==
  /\ LiveInit /\ view = "NEW_ENTRY"
  /\ DiaryInit /\ nextId = 1
  /\ today = [date |-> << 2024, 1, 1 >>, hour |-> 0] /\ timeZone = "utc"
  /\ CameraInit /\ RecInit /\ JokeInit /\ ChatInit
  /\ provider = "DeepSeek" /\ chatHistory = << Msg("system", "instruction") >>
  /\ sendCall = << >> /\ sendReturn = << >>
  /\ analyzeArgs \in [config : Configs, attachments : AttachmentLists]
  /\ analyzePc = "idle" /\ analyzeCalls = << >> /\ analyzeResult = << >>

NextAnalyze ==
  \/ AnalyzeDiaryEntry
  \/ \E c \in Contents : RequestResolve(c)
  \/ RequestReject

SpecAnalyze == InitAnalyze /\ [][NextAnalyze]_vars

\* ================================================================ claims
\* ---- playback scheduling (SpecPlay) ----

\* C1: once an Interrupted message has been handled, no chunk whose message
\* arrived before it is started or added to sourcesRef afterwards: every
\* started buffer was started with as many interrupts handled as when its
\* message arrived.
C1_InterruptOrdering ==
  \A i \in Started : chunk[i].epochS = chunk[i].epoch

\* C2: handling Interrupted stops every member of sourcesRef and empties the
\* set (a buffer started before the interrupt is stopped or had already
\* played to its end, and no such buffer is in the set), resets the anchor so
\* that the first buffer scheduled after the interrupt starts at the clock's
\* current value, and a buffer that had not begun to play at the interrupt
\* is never rendered.
FirstAfterInterrupt(i) ==
  /\ i \in Started
  /\ chunk[i].epochS >= 1
  /\ \A j \in Started :
       chunk[j].epochS = chunk[i].epochS => chunk[j].ord >= chunk[i].ord

C2_InterruptClears ==
  /\ \A i \in sourcesRef : chunk[i].epochS = interrupts
  /\ \A i \in Started :
       chunk[i].epochS < interrupts =>
         chunk[i].stopped \/ EffEnd(chunk[i]) <= interruptAt
  /\ (interrupts >= 1 /\ \A i \in Started : chunk[i].epochS < interrupts)
       => nextStartTimeRef <= now
  /\ \A i \in Started :
       FirstAfterInterrupt(i) => EffStart(chunk[i]) = chunk[i].at
  /\ \A i \in Started :
       (chunk[i].epochS + 1 = interrupts /\ EffStart(chunk[i]) >= interruptAt)
         => ~Played(chunk[i], now)

\* C2 witness: a buffer scheduled before the interrupt was stopped before it
\* played and the clock has since passed its start time; a chunk that arrived
\* after the interrupt was started at the clock, earlier than the
\* pre-interrupt anchor.
C2_Witness ==
  /\ interrupts = 1
  /\ sourcesRef # {}
  /\ \E i, j \in Started :
       /\ chunk[i].epochS = 0 /\ chunk[i].stopped
       /\ EffStart(chunk[i]) >= interruptAt /\ now > EffStart(chunk[i])
       /\ chunk[j].epoch = 1 /\ FirstAfterInterrupt(j)
       /\ chunk[j].at < chunk[i].start + chunk[i].dur

\* C3: the playback ranges [start, start + duration) of any two members of
\* sourcesRef are disjoint, a start time in the past counting from the clock
\* at source.start.
C3_NoOverlap ==
  \A i, j \in sourcesRef :
    i # j => \/ EffEnd(chunk[i]) <= EffStart(chunk[j])
             \/ EffEnd(chunk[j]) <= EffStart(chunk[i])

\* C4: for consecutive chunks i, i+1 with no interrupt between them, a chunk
\* i+1 enqueued before nextFreeTime is reached starts at
\* start(i) + duration(i), and a gap occurs only when chunk i+1 came after
\* nextFreeTime had passed (taken at its latest: the clock at its
\* source.start, which is not before its arrival).
NoInterruptBetween(i, j) ==
  /\ chunk[i].epoch = chunk[j].epoch
  /\ chunk[i].epochS = chunk[i].epoch
  /\ chunk[j].epochS = chunk[j].epoch

C4_Gapless ==
  \A i \in 1..Len(chunk) - 1 :
    (i \in Started /\ i + 1 \in Started /\ NoInterruptBetween(i, i + 1)) =>
      /\ chunk[i + 1].at < chunk[i + 1].anchor
           => chunk[i + 1].start = chunk[i].start + chunk[i].dur
      /\ chunk[i + 1].start > chunk[i].start + chunk[i].dur
           => chunk[i + 1].at > chunk[i].start + chunk[i].dur

\* C5: a decoded chunk is started at max(now, nextFreeTime), now being the
\* clock at source.start and nextFreeTime the anchor found there.
C5_EnqueueContract ==
  \A i \in Started : chunk[i].start = Max(chunk[i].at, chunk[i].anchor)

\* C6: chunks are scheduled in arrival order: of two chunks that arrived A
\* then B with no interrupt between them, B is not started while A is still
\* being decoded, and when both are started A was started first, at the
\* smaller start time.
C6_ArrivalOrder ==
  \A i, j \in 1..Len(chunk) :
    (i < j /\ j \in Started /\ chunk[i].epoch = chunk[j].epoch
       /\ chunk[j].epochS = chunk[j].epoch) =>
      /\ chunk[i].st # "decoding"
      /\ i \in Started =>
           chunk[i].ord < chunk[j].ord /\ chunk[i].start < chunk[j].start

\* C15: a failed decode skips its chunk and nothing else: the step in which
\* a chunk's decode fails starts nothing, leaves sourcesRef and the anchor as
\* they were, closes nothing and sets no error; a failed chunk is never in
\* sourcesRef; the session stays open without an error; and every chunk
\* still being decoded can be scheduled, and is then started at the anchor,
\* added to sourcesRef, and advances the anchor by its own duration.
Fails(i) == chunk[i].st = "decoding" /\ chunk'[i].st = "failed"
Schedules(i) == chunk[i].st = "decoding" /\ chunk'[i].st = "started"

C15_DecodeFailureSkipped ==
  /\ [](/\ \A i \in 1..Len(chunk) :
            chunk[i].st = "failed" => i \notin sourcesRef
        /\ error = "none" /\ ws = "open" /\ outputAudioContextRef = "open"
        /\ \A i \in 1..Len(chunk) :
            chunk[i].st = "decoding" => ENABLED DecodeResolve(i))
  /\ [][\A i \in 1..Len(chunk) :
         /\ Fails(i) =>
              /\ UNCHANGED << nextStartTimeRef, sourcesRef, error, ws,
                              isConnected, released >>
              /\ \A j \in 1..Len(chunk) : j # i => chunk'[j] = chunk[j]
         /\ Schedules(i) =>
              /\ chunk'[i].start = nextStartTimeRef
              /\ nextStartTimeRef' = nextStartTimeRef + chunk[i].dur
              /\ sourcesRef' = sourcesRef \cup {i}]_vars

\* C15 witness: the first chunk's decode failed and the chunk that arrived
\* after it is scheduled, at the anchor the failed chunk left untouched.
C15_Witness ==
  /\ Len(chunk) >= 2
  /\ chunk[1].st = "failed"
  /\ chunk[2].st = "started" /\ 2 \in sourcesRef
  /\ chunk[2].ord = 1 /\ chunk[2].start = 0
  /\ nextStartTimeRef = chunk[2].dur
  /\ error = "none" /\ ws = "open"

\* C21: sourcesRef holds exactly the started buffers that were neither
\* stopped nor removed by their onended: every member is started and not
\* stopped, and every started buffer that is not stopped and has not played
\* to its end is a member; a buffer enters only in the step that starts it
\* and never again; it leaves only by being stopped or, once it has played
\* to its end, by its onended, which removes it alone; an onended of a
\* buffer no longer in the set changes nothing.
C21_ScheduledSet ==
  /\ [](/\ \A i \in sourcesRef : i \in Started /\ ~chunk[i].stopped
        /\ \A i \in Started :
             (~chunk[i].stopped /\ now < EffEnd(chunk[i])) => i \in sourcesRef)
  /\ [][\A i \in 1..Len(chunk) :
         /\ (i \notin sourcesRef /\ i \in sourcesRef') => Schedules(i)
         /\ Schedules(i) => i \in sourcesRef'
         /\ i \in Started => chunk'[i].st = "started"
         /\ (i \in sourcesRef /\ i \notin sourcesRef') =>
              \/ chunk'[i].stopped
              \/ /\ now >= EffEnd(chunk[i])
                 /\ sourcesRef' = sourcesRef \ {i}
                 /\ chunk' = chunk]_vars

\* C21 witness: after an interrupt the buffer it stopped is out of the set
\* and the buffer started since, still playing, is its only member.
C21_Witness ==
  /\ interrupts = 1
  /\ \E i, j \in Started :
       /\ chunk[i].stopped /\ i \notin sourcesRef
       /\ ~chunk[j].stopped /\ now < EffEnd(chunk[j])
       /\ sourcesRef = {j}

\* C22: the step that handles a message flagged interrupted, with or without
\* inline audio, begins no decode, starts no buffer, leaves sourcesRef empty
\* and nextStartTimeRef at 0.
C22_InterruptedNeverSchedules ==
  [][interrupts' = interrupts + 1 =>
       /\ Len(chunk') = Len(chunk)
       /\ \A i \in 1..Len(chunk) : chunk'[i].st = chunk[i].st
       /\ sourcesRef' = {}
       /\ nextStartTimeRef' = 0]_vars

\* C22 witness: the last message handled was flagged interrupted and carried
\* audio; it stopped a scheduled buffer, and nothing is scheduled or being
\* decoded for it.
C22_Witness ==
  /\ interruptAudio
  /\ interrupts = 1 /\ interruptAt = now
  /\ Len(chunk) = 1 /\ chunk[1].stopped
  /\ sourcesRef = {} /\ nextStartTimeRef = 0

\* ---- session life (Spec) ----

QueuedSends == {k \in 1..Len(thenQueue) : thenQueue[k].op = "send"}

\* C7: while the session is muted no captured frame is sent to the
\* transport and none is buffered for later sending.
C7_MutedSendsNothing ==
  /\ \A k \in 1..Len(sent) : ~sent[k].muted
  /\ \A k \in QueuedSends : ~thenQueue[k].muted

\* C8: once onerror or onclose has been delivered the session is torn down
\* as by cleanupAudio: tracks stopped, capture graph disconnected, both
\* contexts closed, no scheduled buffer left, the session closed.
TornDown ==
  /\ ~streamLive
  /\ ~capturing
  /\ inputAudioContextRef = "null" /\ released["inputCtx"] = 1
  /\ outputAudioContextRef = "null" /\ released["outputCtx"] = 1
  /\ sourcesRef = {}
  /\ ws \in {"closing", "closed"}

C8_FatalTeardown == (sawError \/ sawClose) => TornDown

\* C9: whenever cleanupAudio has run and neither getUserMedia nor the
\* connect is pending any more, no acquired stream has live tracks and no
\* connected session is still open.
Settled ==
  /\ pc \in {"done", "failed"}
  /\ ws # "connecting"
  /\ promise # "pending" \/ ws = "closed"

C9_NoLeak ==
  (cleanups >= 1 /\ Settled) => (~streamLive /\ ws # "open")

\* C10: over any number of cleanupAudio calls, also after onerror/onclose,
\* every owned resource is released at most once, and exactly once as soon
\* as its ref has been cleared after it was acquired; a further call
\* releases nothing again.
C10_CleanupIdempotent ==
  /\ \A r \in Resources : released[r] <= 1
  /\ released["stream"] = (IF pc = "done" /\ streamRef = "null" THEN 1 ELSE 0)
  /\ released["inputCtx"] =
       (IF pc # "idle" /\ inputAudioContextRef = "null" THEN 1 ELSE 0)
  /\ released["outputCtx"] =
       (IF pc # "idle" /\ outputAudioContextRef = "null" THEN 1 ELSE 0)
  /\ released["processor"] = released["sourceNode"]
  /\ processorRef = "node" => released["processor"] = 0 /\ capturing
  /\ released["processor"] = 1 => processorRef = "null" /\ ~capturing
  /\ (sessionRef = "null" /\ promise = "resolved") => released["session"] = 1
  /\ sessionRef = "promise" => released["session"] = 0

\* C10 witness: cleanupAudio was called twice on a session that had built
\* its capture graph and connected, after an error, and each resource was
\* released once.
C10_Witness ==
  /\ cleanups = 2
  /\ sawError
  /\ \A r \in Resources : released[r] = 1

\* C12: frames are passed to sendRealtimeInput in capture order and none
\* twice, whether the session promise was resolved or pending at capture:
\* the frame numbers of the calls made increase strictly, the callbacks still
\* waiting on the promise are in capture order, and they carry frames
\* captured after every frame already sent.
C12_CaptureOrder ==
  /\ \A k, l \in 1..Len(sent) : k < l => sent[k].id < sent[l].id
  /\ \A k, l \in QueuedSends : k < l => thenQueue[k].id < thenQueue[l].id
  /\ \A k \in 1..Len(sent) : \A l \in QueuedSends :
       sent[k].id < thenQueue[l].id

\* C12 witness: two frames captured while the promise was pending were sent
\* when it resolved.
C12_Witness ==
  /\ Len(sent) = 2
  /\ sent[1].queued /\ sent[2].queued
  /\ promise = "resolved"

\* C13: once liveClient.connect has failed an error is surfaced, isConnected
\* is false, and neither the microphone stream nor an audio context opened
\* during the attempt is still open.
C13_ConnectFailed ==
  promise = "rejected" =>
    /\ error # "none"
    /\ ~isConnected
    /\ ~streamLive
    /\ inputAudioContextRef = "null" /\ outputAudioContextRef = "null"

\* C14: when getUserMedia has rejected the setup error is set and stays,
\* liveClient.connect has not been and is never called, isConnected is and
\* stays false, no stream is held, and the acquisition is not tried again.
MediaFailed ==
  /\ error = "setup"
  /\ connects = 0 /\ ws = "none" /\ promise = "none" /\ sessionRef = "null"
  /\ ~isConnected
  /\ streamRef = "null" /\ ~streamLive

C14_MediaFailureFatal ==
  /\ [](pc = "failed" => MediaFailed)
  /\ [][pc = "failed" => pc' = "failed"]_vars

\* C14 witness: getUserMedia has rejected and the view is still mounted.
C14_Witness == pc = "failed" /\ error = "setup" /\ cleanups = 0

\* C16: after onerror the error text is set, isConnected is false and the
\* application has left the live-session view.
C16_FatalLeavesView ==
  sawError => (error = "conn" /\ ~isConnected /\ view # "LIVE_SESSION")

\* C17: liveClient.connect is called at most once per mount, and once
\* onerror or onclose has been delivered no step calls it again.
C17_NoReconnect ==
  /\ [](connects <= 1 /\ ((sawError \/ sawClose) => connects = 1))
  /\ [][(sawError \/ sawClose) => connects' = connects]_vars

\* C17 witness: the one connection made has failed and closed while the view
\* is still mounted.
C17_Witness ==
  /\ sawError /\ sawClose
  /\ ws = "closed"
  /\ connects = 1
  /\ cleanups = 0

\* C18: a packet submitted while the outbound connection is backpressured
\* is dropped instead of being handed to the transport: no call of
\* sendRealtimeInput is made on a backpressured connection.
C18_DropUnderBackpressure == \A k \in 1..Len(sent) : ~sent[k].bp

\* C19: sendRealtimeInput is called only while the session is open: never
\* before onopen, never after onclose or onerror, never after session.close.
C19_SendOnlyWhileOpen == \A k \in 1..Len(sent) : sent[k].open

\* C20: isConnected is true only between onopen and the first onclose or
\* onerror, it becomes true only in the step in which the transport opens,
\* and an error that is set keeps its value.
C20_Monotonic ==
  /\ [](isConnected => (ws \in {"open", "closing"} /\ ~sawError /\ ~sawClose))
  /\ [][(~isConnected /\ isConnected') => (ws = "connecting" /\ ws' = "open")]_vars
  /\ [][error # "none" => error' = error]_vars

\* C20 witness: a session that had opened (its capture graph is built) has
\* seen onerror and onclose; it shows the error and is not connected.
C20_Witness ==
  /\ sawError /\ sawClose
  /\ processorRef = "node" /\ promise = "resolved"
  /\ ~isConnected
  /\ error = "conn"

\* ---- playback and close (SpecPlayClose) ----

\* C11: after cleanupAudio the scheduled set is empty and stays empty: no
\* buffer is started and added to sourcesRef afterwards, whether its message
\* arrives after the close or its decode was in flight at the close.
C11_ClosedStaysEmpty == cleanups >= 1 => sourcesRef = {}

\* ---- the diary (SpecDiary, SpecDate) ----

EntryIds(es) == {es[k].id : k \in 1..Len(es)}

\* C23: an entry removed by handleDeleteEntry never reappears in entries,
\* also when a save was waiting for its analysis at the deletion.
C23_DeletedStaysDeleted == \A id \in EntryIds(entries) : id \notin deleted

\* C24: clearDataStep is 0, 1 or 2; localStorage.clear is called only by a
\* step taken at clearDataStep 2, which is reached only from 1 and 1 only
\* from 0, each by a click of its own; a step that takes the dialog back to 0
\* without calling localStorage.clear leaves the entries as they are.
C24_ClearNeedsTwoConfirms ==
  /\ [](clearDataStep \in {0, 1, 2})
  /\ [][/\ clears' # clears => (clearDataStep = 2 /\ clears' = clears + 1)
        /\ (clearDataStep' = 2 /\ clearDataStep # 2) => clearDataStep = 1
        /\ (clearDataStep' = 1 /\ clearDataStep # 1) => clearDataStep = 0
        /\ (clearDataStep > 0 /\ clearDataStep' = 0 /\ clears' = clears)
             => (entries' = entries /\ saving' = saving)]_vars

\* C24 witness: an entry had been saved, the dialog was confirmed twice, and
\* the application is back at step 0 with nothing stored.
C24_Witness ==
  /\ clears = 1 /\ clearDataStep = 0
  /\ nextId > 1 /\ deleted = {}
  /\ entries = << >>

\* C28: an entry saved with a back-fill date selected has, read in local
\* time, the selected year, month and day, and the hour of the current
\* clock.
C28_BackfillDate ==
  \A k \in 1..Len(entries) :
    entries[k].backfill # NoDate =>
      LocalOf(entries[k].date, timeZone) =
        [date |-> entries[k].backfill, hour |-> today.hour]

\* C29: the delete confirmation is shown only for a selected entry and is
\* reset by every change of selectedEntry; handleDeleteEntry runs only while
\* the confirmation is shown, removes exactly the entries with the selected
\* id, keeps the others in order and clears selectedEntry; and an entry
\* leaves entries only so, or by clearing all data.
C29_DeleteConfirmed ==
  /\ [](isDeleteConfirming => selectedEntry # 0)
  /\ [][/\ selectedEntry' # selectedEntry => ~isDeleteConfirming'
        /\ deleted' # deleted =>
             /\ isDeleteConfirming /\ selectedEntry # 0
             /\ deleted' = deleted \cup {selectedEntry}
             /\ LET Keep(e) == e.id # selectedEntry
                IN  entries' = SelectSeq(entries, Keep)
             /\ selectedEntry' = 0
        /\ \A id \in EntryIds(entries) \ EntryIds(entries') :
             \/ clears' # clears
             \/ id = selectedEntry /\ isDeleteConfirming
                  /\ deleted' = deleted \cup {id}]_vars

\* C29 witness: of two entries the older one was deleted after confirmation
\* and the newer one is still there, no dialog open.
C29_Witness ==
  /\ Len(entries) = 1 /\ entries[1].id = 2
  /\ deleted = {1}
  /\ selectedEntry = 0 /\ ~isDeleteConfirming

\* C25: with the camera overlay closed and no getUserMedia call pending, no
\* stream acquired by startCamera has live tracks.
C25_ClosedCameraStopped ==
  (~isCameraOpen /\ camPending = {}) => camLive = {}

\* C26: at most one recorder is recording, and every microphone stream with
\* live tracks belongs to the recorder stopRecording can stop or to an onstop
\* handler that will stop its tracks when the transcription finishes.
C26_OneStoppableRecorder ==
  /\ Cardinality(recActive) <= 1
  /\ \A s \in micLive :
       \/ s \in transcribing
       \/ isRecording /\ s = mediaRecorderRef

\* C27: fetchDailyJoke is called only when localStorage holds no joke or a
\* joke of another day.
C27_FetchOnlyWhenStale ==
  \A c \in jokeLog : c.stale

\* The messages after the greeting are pairs of a user message and one model
\* message; the last pair lacks its model message exactly while isLoading.
Answered ==
  /\ messages[1] = InitMessages[1]
  /\ \A i \in 2..Len(messages) :
       IF i % 2 = 0
         THEN messages[i].role = "user" /\ ~Blank(messages[i].text)
         ELSE /\ messages[i].role = "model"
              /\ messages[i].text \in {"reply", "placeholder", "error"}
  /\ isLoading <=> Len(messages) % 2 = 0
  /\ isLoading <=> chatPending # << >>

\* What one call of handleSend does.
SendStep ==
  chatCalls' # chatCalls =>
    IF Blank(input) \/ isLoading
      THEN UNCHANGED << messages, input, isLoading, chatPending, chatSends >>
      ELSE /\ messages' = Append(messages, [role |-> "user", text |-> input])
           /\ chatSends' = chatSends + 1
           /\ isLoading'

\* C30: a handleSend call with non-blank input while isLoading is false
\* appends one user message and sends it once, and is followed by exactly
\* one model message (reply, placeholder or connection-error text), after
\* which isLoading is false; a call with blank input or while isLoading is
\* true changes no state and sends nothing.
C30_AnsweredOnce ==
  /\ []Answered
  /\ [][SendStep]_vars
  /\ (isLoading ~> ~isLoading)

\* A message was accepted and answered with the connection-error text, and a
\* call of handleSend was turned away.
C30_Witness ==
  /\ Len(messages) >= 3 /\ messages[3].text = "error"
  /\ ~isLoading
  /\ chatCalls > chatSends

\* C31: for DeepSeek and SiliconFlow, once no sendMessage call is in flight
\* chatHistory is the system message followed by alternating user and
\* assistant messages; no call throws, and a call that returned the error
\* text left chatHistory as it was before the call.
C31_HistoryAlternates ==
  (provider # "Gemini" /\ sendCall = << >>) =>
    /\ chatHistory[1].role = "system"
    /\ Len(chatHistory) % 2 = 1
    /\ \A i \in 2..Len(chatHistory) :
         chatHistory[i].role = IF i % 2 = 0 THEN "user" ELSE "assistant"
    /\ \A k \in 1..Len(sendReturn) : sendReturn[k].kind # "threw"
    /\ (sendReturn # << >>
          /\ sendReturn[Len(sendReturn)].kind = "errorText")
         => chatHistory = sendReturn[Len(sendReturn)].before

\* C32: when the provider request fails, gives no text or gives text that
\* is not parsable JSON, analyzeDiaryEntry resolves to the fallback analysis.
C32_FallbackOnFailure ==
  (analyzePc = "done"
     /\ analyzeResult[1].reply \in {"failed", "garbage", "", JsNull, Undefined})
    => analyzeResult[1].value = "fallback"

\* C33: one provider request is made per analysis: to DeepSeek or
\* SiliconFlow when that provider is configured with a non-empty apiKey and
\* there are no attachments, to Gemini in every other case.
C33_Routing ==
  LET config == analyzeArgs.config
      third == /\ config # << >>
               /\ config[1].provider \in {"DeepSeek", "SiliconFlow"}
               /\ config[1].apiKey \notin {Undefined, ""}
               /\ analyzeArgs.attachments = << >>
  IN  IF analyzePc = "idle"
        THEN analyzeCalls = << >>
        ELSE analyzeCalls = << IF third THEN config[1].provider ELSE "Gemini" >>

\* An analysis with DeepSeek configured, a key and an attachment has settled
\* after its one request went to Gemini.
C33_Witness ==
  /\ analyzePc = "done"
  /\ analyzeArgs.config = << [provider |-> "DeepSeek", apiKey |-> "sk"] >>
  /\ analyzeArgs.attachments # << >>
  /\ analyzeCalls = << "Gemini" >>

====
